---- MODULE Spec2Model ----
(***************************************************************************)
(* The document segmentation pipeline of                                   *)
(* examples/Embedding_Wikipedia_articles_for_search.ipynb:                 *)
(*   all_subsections_from_title / all_subsections_from_section (flatten),  *)
(*   clean_section / keep_section (clean, filter),                         *)
(*   num_tokens / halved_by_delimiter / truncated_string /                 *)
(*   split_strings_from_subsection (token-bounded splitting).              *)
(*                                                                         *)
(* A Python str is a sequence of one-character strings, so that split,     *)
(* join, strip, the regular expression and the tokenizers work on          *)
(* characters and are not the identity.                                    *)
(***************************************************************************)
EXTENDS Integers, Sequences, FiniteSets, TLC

VARIABLES
    pc,              \* "input" while the arguments are being built, "done" after the call
    titles,          \* split: the subsection's path (list of title strings)
    text,            \* split / halve / clean: the text argument
    max_tokens,      \* split: the token budget
    model,           \* split: the model argument
    max_recursion,   \* split: the recursion budget
    strings,         \* split: the returned list (one record per returned string)
    delimiter,       \* halve: the delimiter argument
    halves,          \* halve: the returned pair
    wiki_title,      \* flatten: the page title
    page,            \* flatten: the parsed page, [lead, entries]
    sections_to_ignore,  \* flatten: the ignore set
    sections,        \* flatten: the returned list of subsections
    typed,           \* clean: the number of pieces of markup typed into text
    cleaned          \* clean: the returned section, <<titles, text>>

splitVars == <<titles, max_tokens, model, max_recursion, strings>>
halveVars == <<delimiter, halves>>
flatVars == <<wiki_title, page, sections_to_ignore, sections>>
cleanVars == <<typed, cleaned>>
vars == <<pc, text, splitVars, halveVars, flatVars, cleanVars>>

----------------------------------------------------------------------------
(* Bounds of the model. *)

MaxTextLen == 7      \* characters of text typed in
MaxBudget == 5       \* max_tokens ranges over 1..MaxBudget
MaxRecursion == 2    \* max_recursion ranges over 0..MaxRecursion
MaxHeadings == 3     \* headings of a page
MaxLevel == 3        \* heading levels range over TopLevel..MaxLevel
MaxPieces == 5       \* pieces of markup typed into a section's text

----------------------------------------------------------------------------
(* Characters and Python's str operations. *)

NL == "\n"
Letters == {"a", "b", "T", "A", "R", "r", "x", "e", "f"}

Min(a, b) == IF a <= b THEN a ELSE b
Abs(n) == IF n < 0 THEN -n ELSE n

\* s[k:] starts with d
StartsWithAt(s, d, k) ==
    /\ k >= 1
    /\ k + Len(d) - 1 <= Len(s)
    /\ SubSeq(s, k, k + Len(d) - 1) = d

\* the first occurrence of d in s at or after k; 0 when there is none
RECURSIVE FindFrom(_, _, _)
FindFrom(s, d, k) ==
    IF k + Len(d) - 1 > Len(s) THEN 0
    ELSE IF StartsWithAt(s, d, k) THEN k
    ELSE FindFrom(s, d, k + 1)

\* str.find(d), 1-based; 0 when d does not occur
Find(s, d) == FindFrom(s, d, 1)

\* str.split(d): cuts at the non-overlapping occurrences of d, left to right
RECURSIVE StrSplit(_, _)
StrSplit(s, d) ==
    LET k == Find(s, d)
    IN  IF k = 0
        THEN <<s>>
        ELSE <<SubSeq(s, 1, k - 1)>> \o StrSplit(SubSeq(s, k + Len(d), Len(s)), d)

\* d.join(chunks)
RECURSIVE StrJoin(_, _)
StrJoin(chunks, d) ==
    IF chunks = <<>> THEN <<>>
    ELSE IF Len(chunks) = 1 THEN chunks[1]
    ELSE chunks[1] \o d \o StrJoin(Tail(chunks), d)

IsPrefix(p, s) == Len(p) <= Len(s) /\ SubSeq(s, 1, Len(p)) = p

----------------------------------------------------------------------------
(* The tokenizers (tiktoken).  Two encodings stand for the encodings of    *)
(* two models: under GPT_MODEL a token is a maximal run of letters or a    *)
(* maximal run of one repeated other character; under OTHER_MODEL a token  *)
(* is a block of two characters.  Both are deterministic, decode is the    *)
(* concatenation of the tokens, and a prefix of an encoding encodes to     *)
(* itself.                                                                 *)

GPT_MODEL == "gpt-4o-mini"
OTHER_MODEL == "gpt-4"
Models == {GPT_MODEL, OTHER_MODEL}

CharClass(c) == IF c \in Letters THEN "letter" ELSE c

\* the length of the run of s[1]'s class that starts at s[n], n included
RECURSIVE RunFrom(_, _)
RunFrom(s, n) ==
    IF n = Len(s) \/ CharClass(s[n + 1]) # CharClass(s[1]) THEN n
    ELSE RunFrom(s, n + 1)

RunLen(s) == RunFrom(s, 1)

RECURSIVE EncodeRuns(_)
EncodeRuns(s) ==
    IF s = <<>> THEN <<>>
    ELSE LET n == RunLen(s)
         IN  <<SubSeq(s, 1, n)>> \o EncodeRuns(SubSeq(s, n + 1, Len(s)))

RECURSIVE EncodePairs(_)
EncodePairs(s) ==
    IF s = <<>> THEN <<>>
    ELSE IF Len(s) <= 2 THEN <<s>>
    ELSE <<SubSeq(s, 1, 2)>> \o EncodePairs(SubSeq(s, 3, Len(s)))

\* tiktoken.encoding_for_model(m).encode(s)
Encode(s, m) == IF m = GPT_MODEL THEN EncodeRuns(s) ELSE EncodePairs(s)

\* encoding.decode(tokens)
RECURSIVE Decode(_)
Decode(tokens) ==
    IF tokens = <<>> THEN <<>> ELSE tokens[1] \o Decode(Tail(tokens))

\* num_tokens(text, model)
num_tokens(s, m) == Len(Encode(s, m))

\* truncated_string(string, model, max_tokens)
truncated_string(string, m, n) ==
    LET encoded_string == Encode(string, m)
    IN  Decode(SubSeq(encoded_string, 1, Min(n, Len(encoded_string))))

----------------------------------------------------------------------------
(* halved_by_delimiter *)

\* variant of halfway that does not halve the total (checks C17)
halfwayWhole(string) == num_tokens(string, GPT_MODEL)

\* halfway = num_tokens(string) // 2: num_tokens is called without a model,
\* so the count is taken under the default GPT_MODEL
halfway(string) == num_tokens(string, GPT_MODEL) \div 2

\* variant of FailsToImprove where a tie does not stop the scan (checks C13)
FailsToImproveStrict(diff, best_diff) == diff > best_diff

\* if diff >= best_diff: break
FailsToImprove(diff, best_diff) == diff >= best_diff

\* the for loop: the value of i (0-based) when the loop is left, by break
\* or by running out of chunks
RECURSIVE scan(_, _, _, _, _)
scan(chunks, d, target, i, best_diff) ==
    LET left == StrJoin(SubSeq(chunks, 1, i + 1), d)
        left_tokens == num_tokens(left, GPT_MODEL)
        diff == Abs(target - left_tokens)
    IN  IF FailsToImprove(diff, best_diff) THEN i
        ELSE IF i + 1 = Len(chunks) THEN i
        ELSE scan(chunks, d, target, i + 1, diff)

\* variant of RightFrom that leaves out the piece at i (checks C18)
RightAfter(chunks, d, i) == StrJoin(SubSeq(chunks, i + 2, Len(chunks)), d)

\* right = delimiter.join(chunks[i:])
RightFrom(chunks, d, i) == StrJoin(SubSeq(chunks, i + 1, Len(chunks)), d)

halved_by_delimiter(string, d) ==
    LET chunks == StrSplit(string, d)
    IN  IF Len(chunks) = 1 THEN <<string, <<>>>>
        ELSE IF Len(chunks) = 2 THEN chunks
        ELSE LET i == scan(chunks, d, halfway(string), 0, halfway(string))
             IN  <<StrJoin(SubSeq(chunks, 1, i), d), RightFrom(chunks, d, i)>>

----------------------------------------------------------------------------
(* split_strings_from_subsection *)

Separator == <<NL, NL>>
\* variant of Delimiters that tries the finest delimiter first (checks C12)
DelimitersFinestFirst == << <<".", " ">>, <<NL>>, <<NL, NL>> >>

\* for delimiter in ["\n\n", "\n", ". "]
Delimiters == << <<NL, NL>>, <<NL>>, <<".", " ">> >>

\* variant of Candidate with the text put before the titles (checks C10)
CandidateTextFirst(ts, tx) == StrJoin(<<tx>> \o ts, Separator)

\* string = "\n\n".join(titles + [text])
Candidate(ts, tx) == StrJoin(ts \o <<tx>>, Separator)

\* num_tokens_in_string = num_tokens(string): again without the model
num_tokens_in_string(string) == num_tokens(string, GPT_MODEL)

\* variant of FitsBudget with a strict comparison (checks C3)
FitsBudgetStrict(n, budget) == n < budget

\* if num_tokens_in_string <= max_tokens
FitsBudget(n, budget) == n <= budget

\* variant of NextRecursion that does not decrement (checks C9)
NextRecursionSame(r) == r

\* max_recursion=max_recursion - 1
NextRecursion(r) == r - 1

\* One returned string.  Only `string` is returned by the code; the other
\* fields record how it was produced: by truncation or not, from which
\* piece of the text, and with how much recursion budget left.
Returned(string, tx, r, trunc) ==
    [string |-> string, truncated |-> trunc, piece |-> tx, max_recursion |-> r]

\* the for loop over the delimiters: the first pair with two non-empty
\* halves, or <<>> when every delimiter leaves a half empty
RECURSIVE FirstHalves(_, _)
FirstHalves(tx, k) ==
    IF k > Len(Delimiters) THEN <<>>
    ELSE LET lr == halved_by_delimiter(tx, Delimiters[k])
         IN  IF lr[1] = <<>> \/ lr[2] = <<>>
             THEN FirstHalves(tx, k + 1)
             ELSE lr

RECURSIVE split_strings_from_subsection(_, _, _, _, _)
split_strings_from_subsection(ts, tx, budget, m, r) ==
    LET string == Candidate(ts, tx)
    IN  IF FitsBudget(num_tokens_in_string(string), budget)
        THEN <<Returned(string, tx, r, FALSE)>>
        ELSE IF r = 0
        THEN <<Returned(truncated_string(string, m, budget), tx, r, TRUE)>>
        ELSE LET lr == FirstHalves(tx, 1)
             IN  IF lr = <<>>
                 THEN <<Returned(truncated_string(string, m, budget), tx, r, TRUE)>>
                 ELSE split_strings_from_subsection(ts, lr[1], budget, m, NextRecursion(r))
                      \o split_strings_from_subsection(ts, lr[2], budget, m, NextRecursion(r))

\* the list of str the code returns
RECURSIVE Strings(_)
Strings(rs) == IF rs = <<>> THEN <<>> ELSE <<rs[1].string>> \o Strings(Tail(rs))

----------------------------------------------------------------------------
(* The parsed page (mwparserfromhell).  A page is its lead text followed   *)
(* by entries, one per heading in document order: the heading's level and  *)
(* title, and the text up to the next heading.  `pos` numbers the headings *)
(* of the page; the code does not have it, it names the node a subsection  *)
(* came from.                                                              *)

\* parsed_text.get_sections(levels=[2]): the page's sections start at level
\* 2 ("=="); level 1 is the level of the page title and is not walked
TopLevel == 2

RECURSIVE Equals(_)
Equals(n) == IF n <= 0 THEN <<>> ELSE <<"=">> \o Equals(n - 1)

\* str(heading): "==" + title + "=="
HeadingStr(h) == Equals(h.level) \o h.title \o Equals(h.level)

\* str(wikicode) of a run of entries
RECURSIVE EntriesStr(_)
EntriesStr(es) ==
    IF es = <<>> THEN <<>>
    ELSE HeadingStr(es[1]) \o es[1].body \o EntriesStr(Tail(es))

\* str(parsed_text)
PageStr(pg) == pg.lead \o EntriesStr(pg.entries)

\* [str(h) for h in wikicode.filter_headings()]
RECURSIVE filter_headings(_)
filter_headings(es) ==
    IF es = <<>> THEN <<>> ELSE <<HeadingStr(es[1])>> \o filter_headings(Tail(es))

\* a section runs from its heading to the next heading of the same or a
\* higher rank (a level that is not greater)
SectionEnd(es, i) ==
    IF \E j \in (i + 1)..Len(es) : es[j].level <= es[i].level
    THEN CHOOSE j \in (i + 1)..Len(es) :
            /\ es[j].level <= es[i].level
            /\ \A k \in (i + 1)..(j - 1) : es[k].level > es[i].level
    ELSE Len(es) + 1

\* wikicode.get_sections(levels=[level]): the sections whose heading has
\* that level, in document order
RECURSIVE SectionsFrom(_, _, _)
SectionsFrom(es, level, i) ==
    IF i > Len(es) THEN <<>>
    ELSE IF es[i].level = level
    THEN <<SubSeq(es, i, SectionEnd(es, i) - 1)>> \o SectionsFrom(es, level, i + 1)
    ELSE SectionsFrom(es, level, i + 1)

get_sections(es, level) == SectionsFrom(es, level, 1)

\* str.strip(chars)
RECURSIVE LStrip(_, _)
LStrip(s, cs) == IF s # <<>> /\ s[1] \in cs THEN LStrip(Tail(s), cs) ELSE s

RECURSIVE RStrip(_, _)
RStrip(s, cs) ==
    IF s # <<>> /\ s[Len(s)] \in cs THEN RStrip(SubSeq(s, 1, Len(s) - 1), cs) ELSE s

Strip(s, cs) == RStrip(LStrip(s, cs), cs)

----------------------------------------------------------------------------
(* all_subsections_from_section, all_subsections_from_title *)

\* "=" + " "
DecorationChars == {"=", " "}

\* variant of IsIgnored that compares the decorated heading (checks C4)
IsIgnoredRaw(title, ignore) == title \in ignore

\* title.strip("=" + " ") in sections_to_ignore
IsIgnored(title, ignore) == Strip(title, DecorationChars) \in ignore

\* variant of ChildTitles that drops the parent titles (checks C6)
ChildTitlesAlone(parent_titles, title) == <<title>>

\* titles = parent_titles + [title]
ChildTitles(parent_titles, title) == parent_titles \o <<title>>

\* One subsection: (titles, text) is what the code returns; pos is the
\* heading it was made from (0 for the page's lead).
Subsection(ts, tx, n) == [titles |-> ts, text |-> tx, pos |-> n]

RECURSIVE all_subsections_from_section(_, _, _)
RECURSIVE SubsectionsOfEach(_, _, _)

\* the for loop: results.extend(all_subsections_from_section(subsection, ...))
SubsectionsOfEach(subsections, ts, ignore) ==
    IF subsections = <<>> THEN <<>>
    ELSE all_subsections_from_section(subsections[1], ts, ignore)
         \o SubsectionsOfEach(Tail(subsections), ts, ignore)

all_subsections_from_section(section, parent_titles, ignore) ==
    LET headings == filter_headings(section)
        title == headings[1]
    IN  IF IsIgnored(title, ignore) THEN <<>>
        ELSE LET ts == ChildTitles(parent_titles, title)
                 full_text == EntriesStr(section)
                 section_text == StrSplit(full_text, title)[2]
             IN  IF Len(headings) = 1
                 THEN <<Subsection(ts, section_text, section[1].pos)>>
                 ELSE LET first_subtitle == headings[2]
                          own_text == StrSplit(section_text, first_subtitle)[1]
                      IN  <<Subsection(ts, own_text, section[1].pos)>>
                          \o SubsectionsOfEach(get_sections(section, Len(ts) + 1),
                                               ts, ignore)

all_subsections_from_title(title, pg, ignore) ==
    LET headings == filter_headings(pg.entries)
        summary_text == IF headings # <<>>
                        THEN StrSplit(PageStr(pg), headings[1])[1]
                        ELSE PageStr(pg)
    IN  <<Subsection(<<title>>, summary_text, 0)>>
        \o SubsectionsOfEach(get_sections(pg.entries, TopLevel), <<title>>, ignore)

----------------------------------------------------------------------------
(* clean_section, keep_section *)

RefOpen == <<"<", "r", "e", "f">>
RefClose == <<"<", "/", "r", "e", "f", ">">>
Whitespace == {" ", NL}

\* len(text) < 16
MinSectionChars == 16

\* a match of <ref.*?</ref> at the start of s: the index of its last
\* character, 0 when there is none.  '.' matches any character but a
\* newline, and '*?' takes the nearest </ref>.
RefMatchEnd(s) ==
    LET closes == {j \in (Len(RefOpen) + 1)..Len(s) :
                      /\ StartsWithAt(s, RefClose, j)
                      /\ \A k \in (Len(RefOpen) + 1)..(j - 1) : s[k] # NL}
    IN  IF StartsWithAt(s, RefOpen, 1) /\ closes # {}
        THEN (CHOOSE j \in closes : \A k \in closes : j <= k) + Len(RefClose) - 1
        ELSE 0

\* re.sub(r"<ref.*?</ref>", "", text): one pass, left to right, over the
\* non-overlapping matches
RECURSIVE RefSub(_)
RefSub(s) ==
    IF s = <<>> THEN <<>>
    ELSE IF RefMatchEnd(s) > 0 THEN RefSub(SubSeq(s, RefMatchEnd(s) + 1, Len(s)))
    ELSE <<s[1]>> \o RefSub(Tail(s))

clean_section(section) ==
    LET ts == section[1]
        tx == section[2]
    IN  <<ts, Strip(RefSub(tx), Whitespace)>>

\* variant of keep_section that drops a text of exactly the minimum
\* length (checks C11)
keep_section_above(section) == ~(Len(section[2]) <= MinSectionChars)

\* if len(text) < 16: return False, else: return True
keep_section(section) == ~(Len(section[2]) < MinSectionChars)

----------------------------------------------------------------------------
(* The variables of the parts that a specification does not exercise. *)

NoFlatten ==
    /\ wiki_title = <<>>
    /\ page = [lead |-> <<>>, entries |-> <<>>]
    /\ sections_to_ignore = {}
    /\ sections = <<>>

NoSplit ==
    /\ titles = <<>>
    /\ max_tokens = 1
    /\ model = GPT_MODEL
    /\ max_recursion = 0
    /\ strings = <<>>

NoHalve ==
    /\ delimiter = <<>>
    /\ halves = <<>>

NoClean ==
    /\ typed = 0
    /\ cleaned = <<>>

----------------------------------------------------------------------------
(* The splitter called on one subsection. *)

TitlePaths == { << <<"T">> >>, << <<"T">>, <<"A">> >> }
TextPieces == { <<"a">>, <<NL>>, <<".", " ">> }

InitSplit ==
    /\ pc = "input"
    /\ titles \in TitlePaths
    /\ text = <<>>
    /\ max_tokens \in 1..MaxBudget
    /\ model \in Models
    /\ max_recursion \in 0..MaxRecursion
    /\ strings = <<>>
    /\ delimiter = <<>>
    /\ halves = <<>>
    /\ NoFlatten
    /\ NoClean

TypeText(p) ==
    /\ pc = "input"
    /\ Len(text) + Len(p) <= MaxTextLen
    /\ text' = text \o p
    /\ UNCHANGED <<pc, splitVars, halveVars, flatVars, cleanVars>>

CallSplit ==
    /\ pc = "input"
    /\ strings' = split_strings_from_subsection(titles, text, max_tokens, model, max_recursion)
    /\ pc' = "done"
    /\ UNCHANGED <<titles, text, max_tokens, model, max_recursion, halveVars, flatVars, cleanVars>>

NextSplit ==
    \/ \E p \in TextPieces : TypeText(p)
    \/ CallSplit

SpecSplit == InitSplit /\ [][NextSplit]_vars

----------------------------------------------------------------------------
(* halved_by_delimiter called on one text. *)

InitHalve ==
    /\ pc = "input"
    /\ titles = <<>>
    /\ text = <<>>
    /\ max_tokens = 1
    /\ model = GPT_MODEL
    /\ max_recursion = 0
    /\ strings = <<>>
    /\ delimiter \in {Delimiters[k] : k \in 1..Len(Delimiters)}
    /\ halves = <<>>
    /\ NoFlatten
    /\ NoClean

CallHalve ==
    /\ pc = "input"
    /\ halves' = halved_by_delimiter(text, delimiter)
    /\ pc' = "done"
    /\ UNCHANGED <<text, delimiter, splitVars, flatVars, cleanVars>>

NextHalve ==
    \/ \E p \in TextPieces : TypeText(p)
    \/ CallHalve

SpecHalve == InitHalve /\ [][NextHalve]_vars

----------------------------------------------------------------------------
(* all_subsections_from_title called on one page. *)

PageTitles == { <<"R">> }
HeadingTitles == { <<" ", "R", " ">>, <<"r">> }
IgnoreSets == { {<<"R">>}, {<<"r">>} }
\* text between headings: a blank line, a line of text, and a line that
\* holds the characters of a heading in its middle (not a heading: a
\* heading starts its line)
PlainLine == <<"x", NL>>
LookalikeLine == <<"x", "=", "=", "r", "=", "=", NL>>
Leads == { PlainLine, LookalikeLine }
Bodies == { <<NL>>, <<NL>> \o LookalikeLine }

InitFlatten ==
    /\ pc = "input"
    /\ text = <<>>
    /\ NoSplit
    /\ NoHalve
    /\ NoClean
    /\ wiki_title \in PageTitles
    /\ page \in [lead : Leads, entries : {<<>>}]
    /\ sections_to_ignore \in IgnoreSets
    /\ sections = <<>>

AddHeading(level, t, body) ==
    /\ pc = "input"
    /\ Len(page.entries) < MaxHeadings
    /\ page' = [page EXCEPT !.entries =
                  Append(@, [level |-> level, title |-> t, body |-> body,
                             pos |-> Len(@) + 1])]
    /\ UNCHANGED <<pc, text, splitVars, halveVars, wiki_title, sections_to_ignore, sections, cleanVars>>

CallFlatten ==
    /\ pc = "input"
    /\ sections' = all_subsections_from_title(wiki_title, page, sections_to_ignore)
    /\ pc' = "done"
    /\ UNCHANGED <<text, splitVars, halveVars, wiki_title, page, sections_to_ignore, cleanVars>>

NextFlatten ==
    \/ \E level \in TopLevel..MaxLevel, t \in HeadingTitles, body \in Bodies :
          AddHeading(level, t, body)
    \/ CallFlatten

SpecFlatten == InitFlatten /\ [][NextFlatten]_vars

----------------------------------------------------------------------------
(* clean_section called on one section. *)

MarkupPieces == { <<"<", "r">>, <<"e", "f">>, RefOpen, RefClose, <<"x">>, <<NL>> }

InitClean ==
    /\ pc = "input"
    /\ text = <<>>
    /\ titles \in TitlePaths
    /\ max_tokens = 1
    /\ model = GPT_MODEL
    /\ max_recursion = 0
    /\ strings = <<>>
    /\ NoHalve
    /\ NoFlatten
    /\ NoClean

TypeMarkup(p) ==
    /\ pc = "input"
    /\ typed < MaxPieces
    /\ text' = text \o p
    /\ typed' = typed + 1
    /\ UNCHANGED <<pc, splitVars, halveVars, flatVars, cleaned>>

CallClean ==
    /\ pc = "input"
    /\ cleaned' = clean_section(<<titles, text>>)
    /\ pc' = "done"
    /\ UNCHANGED <<text, splitVars, halveVars, flatVars, typed>>

NextClean ==
    \/ \E p \in MarkupPieces : TypeMarkup(p)
    \/ CallClean

SpecClean == InitClean /\ [][NextClean]_vars

----------------------------------------------------------------------------
(* The pipeline's cells run one after the other on one page:               *)
(* wikipedia_sections is built by all_subsections_from_title, cleaned,     *)
(* filtered, and split into wikipedia_strings.  `sections` is              *)
(* wikipedia_sections, `strings` is wikipedia_strings; each string records *)
(* the subsection (pos) it was made from.                                  *)

\* max_recursion: int = 5, the default the pipeline's call leaves in place
DefaultMaxRecursion == 5

A7 == <<"a", "a", "a", "a", "a", "a", "a">>
Ref == RefOpen \o <<">", "x">> \o RefClose
\* texts whose cleaned length is 15, 16 and 17 characters; the first is
\* longer than 16 before it is cleaned
Text15 == <<NL>> \o A7 \o <<NL>> \o A7 \o Ref \o <<NL>>
Text16 == <<NL>> \o A7 \o <<".", " ">> \o A7 \o <<" ", NL>>
Text17 == <<NL>> \o A7 \o <<NL, NL>> \o A7 \o <<"a", NL>>
PipelineTitles == { <<" ", "R", " ">> }
PipelineBodies == { Text15, Text16 }
PipelineLeads == { PlainLine, Text17 }
\* MAX_TOKENS, scaled to the texts of the model: a path of two titles
\* alone has 8 tokens
PipelineBudgets == { 2 * MaxBudget - 1, 2 * MaxBudget + 2 }

InitPipeline ==
    /\ pc = "input"
    /\ text = <<>>
    /\ titles = <<>>
    /\ max_tokens \in PipelineBudgets
    /\ model = GPT_MODEL
    /\ max_recursion = DefaultMaxRecursion
    /\ strings = <<>>
    /\ NoHalve
    /\ NoClean
    /\ wiki_title \in PageTitles
    /\ page \in [lead : PipelineLeads, entries : {<<>>}]
    /\ sections_to_ignore \in IgnoreSets
    /\ sections = <<>>

\* wikipedia_sections.extend(all_subsections_from_title(title))
FlattenPage ==
    /\ pc = "input"
    /\ sections' = all_subsections_from_title(wiki_title, page, sections_to_ignore)
    /\ pc' = "flattened"
    /\ UNCHANGED <<text, splitVars, halveVars, wiki_title, page, sections_to_ignore, cleanVars>>

CleanedSubsection(ws) ==
    LET c == clean_section(<<ws.titles, ws.text>>)
    IN  Subsection(c[1], c[2], ws.pos)

\* wikipedia_sections = [clean_section(ws) for ws in wikipedia_sections]
CleanSections ==
    /\ pc = "flattened"
    /\ sections' = [k \in 1..Len(sections) |-> CleanedSubsection(sections[k])]
    /\ pc' = "cleaned"
    /\ UNCHANGED <<text, splitVars, halveVars, wiki_title, page, sections_to_ignore, cleanVars>>

Keeps(ws) == keep_section(<<ws.titles, ws.text>>)

\* wikipedia_sections = [ws for ws in wikipedia_sections if keep_section(ws)]
FilterSections ==
    /\ pc = "cleaned"
    /\ sections' = SelectSeq(sections, Keeps)
    /\ pc' = "filtered"
    /\ UNCHANGED <<text, splitVars, halveVars, wiki_title, page, sections_to_ignore, cleanVars>>

\* the strings of one section, each marked with the section's pos
StringsOfSection(ws, budget) ==
    LET rs == split_strings_from_subsection(ws.titles, ws.text, budget,
                                            GPT_MODEL, DefaultMaxRecursion)
    IN  [k \in 1..Len(rs) |->
            [string |-> rs[k].string, truncated |-> rs[k].truncated,
             piece |-> rs[k].piece, max_recursion |-> rs[k].max_recursion,
             pos |-> ws.pos]]

\* for section in wikipedia_sections: wikipedia_strings.extend(...)
RECURSIVE StringsOfEach(_, _)
StringsOfEach(wss, budget) ==
    IF wss = <<>> THEN <<>>
    ELSE StringsOfSection(wss[1], budget) \o StringsOfEach(Tail(wss), budget)

SplitSections ==
    /\ pc = "filtered"
    /\ strings' = StringsOfEach(sections, max_tokens)
    /\ pc' = "done"
    /\ UNCHANGED <<titles, text, max_tokens, model, max_recursion, halveVars, flatVars, cleanVars>>

NextPipeline ==
    \/ \E level \in TopLevel..MaxLevel, t \in PipelineTitles, body \in PipelineBodies :
          AddHeading(level, t, body)
    \/ FlattenPage
    \/ CleanSections
    \/ FilterSections
    \/ SplitSections

SpecPipeline == InitPipeline /\ [][NextPipeline]_vars

----------------------------------------------------------------------------
(* Properties of split_strings_from_subsection (SpecSplit). *)

\* the path titles joined by the separator, with the separator that
\* precedes the text
PathPrefix(ts) == StrJoin(ts, Separator) \o Separator

IsSubstring(p, s) == p = <<>> \/ \E k \in 1..Len(s) : StartsWithAt(s, p, k)

RECURSIVE Pow2(_)
Pow2(n) == IF n <= 0 THEN 1 ELSE 2 * Pow2(n - 1)

RECURSIVE SumPow2Left(_)
SumPow2Left(rs) ==
    IF rs = <<>> THEN 0 ELSE Pow2(rs[1].max_recursion) + SumPow2Left(Tail(rs))

\* C1: split returns a non-empty list and every element has at most
\* max_tokens tokens under the caller's model, a truncated element having
\* exactly max_tokens.
C1_TokenBudget ==
    pc = "done" =>
        /\ strings # <<>>
        /\ \A k \in 1..Len(strings) :
              /\ num_tokens(strings[k].string, model) <= max_tokens
              /\ strings[k].truncated =>
                    num_tokens(strings[k].string, model) = max_tokens

\* The same statement for calls that pass the default model (what the
\* pipeline's driver does): it holds there.
C1_TokenBudgetDefaultModel ==
    (pc = "done" /\ model = GPT_MODEL) =>
        /\ strings # <<>>
        /\ \A k \in 1..Len(strings) :
              /\ num_tokens(strings[k].string, GPT_MODEL) <= max_tokens
              /\ strings[k].truncated =>
                    num_tokens(strings[k].string, GPT_MODEL) = max_tokens

\* C2: the counts that drive the splitter are taken under the model
\* argument: split returns [candidate] exactly when the candidate has at
\* most max_tokens tokens under that model, and the halving target is half
\* the text's token count under that model.
C2_CountsUnderCallerModel ==
    pc = "done" =>
        /\ (Strings(strings) = <<Candidate(titles, text)>>)
              <=> (num_tokens(Candidate(titles, text), model) <= max_tokens)
        /\ halfway(text) = num_tokens(text, model) \div 2

\* C3: a candidate within the budget (as num_tokens counts it) is returned
\* alone and unchanged, whatever max_recursion is and also for empty text.
C3_BaseCase ==
    (pc = "done" /\ num_tokens(Candidate(titles, text), GPT_MODEL) <= max_tokens) =>
        /\ Len(strings) = 1
        /\ strings[1].string = PathPrefix(titles) \o text

C3_Witness ==
    /\ pc = "done"
    /\ text = <<>>
    /\ max_recursion = 0
    /\ model = OTHER_MODEL
    /\ num_tokens(Candidate(titles, text), GPT_MODEL) = max_tokens
    /\ Strings(strings) = <<PathPrefix(titles)>>

\* C9: the recursion is a binary tree whose levels use max_recursion,
\* max_recursion - 1, ..., never below 0: every returned string was made
\* with a budget in 0..max_recursion left, the leaves fill the tree exactly
\* (sum of 2^left = 2^max_recursion), and so at most 2^max_recursion
\* strings are returned.
C9_BoundedRecursion ==
    pc = "done" =>
        /\ \A k \in 1..Len(strings) : strings[k].max_recursion \in 0..max_recursion
        /\ SumPow2Left(strings) = Pow2(max_recursion)
        /\ Len(strings) <= Pow2(max_recursion)

C9_Witness ==
    /\ pc = "done"
    /\ max_recursion = 2
    /\ Len(strings) = 4
    /\ \E k \in 1..4 : strings[k].truncated
    /\ \E k \in 1..4 : ~strings[k].truncated

\* C10 as stated: every returned string, truncated or not, starts with all
\* the path titles joined by the separator, and what follows them is the
\* separator and a piece of the text.
C10_PathPrependedAlways ==
    pc = "done" =>
        \A k \in 1..Len(strings) :
            /\ IsPrefix(StrJoin(titles, Separator), strings[k].string)
            /\ \E i \in 0..Len(text), j \in 0..Len(text) :
                  strings[k].string = PathPrefix(titles) \o SubSeq(text, i + 1, j)

\* C10 amended: a string returned without truncation is the path prefix
\* followed by a piece of the text; a truncated string is a prefix of such
\* a string (and may stop inside the path).
C10_PathPrepended ==
    pc = "done" =>
        \A k \in 1..Len(strings) :
            /\ IsSubstring(strings[k].piece, text)
            /\ ~strings[k].truncated =>
                  strings[k].string = PathPrefix(titles) \o strings[k].piece
            /\ strings[k].truncated =>
                  IsPrefix(strings[k].string, PathPrefix(titles) \o strings[k].piece)

C10_Witness ==
    /\ pc = "done"
    /\ Len(titles) = 2
    /\ Len(strings) >= 2
    /\ \E k \in 1..Len(strings) :
          /\ strings[k].truncated
          /\ strings[k].piece # text
          /\ ~IsPrefix(StrJoin(titles, Separator), strings[k].string)

\* the delimiters in the order of preference: paragraph break, line break,
\* period-space
ParagraphBreak == <<NL, NL>>
LineBreak == <<NL>>
PeriodSpace == <<".", " ">>
PreferenceOrder == <<ParagraphBreak, LineBreak, PeriodSpace>>

\* the pieces of text the returned strings were made from, in order
PiecesOf(rs) == [k \in 1..Len(rs) |-> rs[k].piece]

\* the pieces, in order and with one of the delimiters between each two
\* neighbours, are s
RECURSIVE Rejoins(_, _)
Rejoins(pieces, s) ==
    IF Len(pieces) = 1 THEN pieces[1] = s
    ELSE \E k \in 1..Len(PreferenceOrder) :
            LET head == pieces[1] \o PreferenceOrder[k]
            IN  /\ IsPrefix(head, s)
                /\ Rejoins(Tail(pieces), SubSeq(s, Len(head) + 1, Len(s)))

\* the candidate is over the budget, as the code counts it
OverBudget == num_tokens(Candidate(titles, text), GPT_MODEL) > max_tokens

\* halve returns two non-empty halves
BothHalves(tx, d) ==
    LET lr == halved_by_delimiter(tx, d)
    IN  lr[1] # <<>> /\ lr[2] # <<>>

\* d is the first delimiter, in the order of preference, with two non-empty
\* halves
FirstUsable(tx, k) ==
    /\ BothHalves(tx, PreferenceOrder[k])
    /\ \A j \in 1..(k - 1) : ~BothHalves(tx, PreferenceOrder[j])

\* what the recursion on the halves of delimiter d returns
RecursionOn(d) ==
    LET lr == halved_by_delimiter(text, d)
    IN  split_strings_from_subsection(titles, lr[1], max_tokens, model, max_recursion - 1)
        \o split_strings_from_subsection(titles, lr[2], max_tokens, model, max_recursion - 1)

\* the one returned string is the truncation made at the top level
TruncatedHere ==
    /\ Len(strings) = 1
    /\ strings[1].truncated
    /\ strings[1].max_recursion = max_recursion

\* C12: over budget with max_recursion > 0, the delimiters are tried in
\* the order paragraph break, line break, period-space and the result is
\* made by recursion on the halves of the first one with two non-empty
\* halves: a first run of strings whose pieces make up left, the rest
\* making up right, all with a smaller recursion budget; a delimiter that
\* does not occur in the text gives (text, "") and is skipped.
C12_DelimiterOrder ==
    (pc = "done" /\ OverBudget /\ max_recursion > 0) =>
        \* lr, usable and pieces are bound as values, each computed once
        \A lr \in {[k \in 1..Len(PreferenceOrder) |->
                        halved_by_delimiter(text, PreferenceOrder[k])]} :
        \A usable \in {{k \in 1..Len(PreferenceOrder) :
                            lr[k][1] # <<>> /\ lr[k][2] # <<>>}} :
        \A pieces \in {PiecesOf(strings)} :
            /\ usable # {} =>
                  \A first \in {CHOOSE k \in usable : \A j \in usable : k <= j} :
                      /\ \A k \in 1..Len(strings) :
                            strings[k].max_recursion < max_recursion
                      /\ \E m \in 1..(Len(strings) - 1) :
                            /\ Rejoins(SubSeq(pieces, 1, m), lr[first][1])
                            /\ Rejoins(SubSeq(pieces, m + 1, Len(pieces)), lr[first][2])
            /\ \A k \in 1..Len(PreferenceOrder) :
                  Find(text, PreferenceOrder[k]) = 0 =>
                      (lr[k] = <<text, <<>>>> /\ k \notin usable)

\* the paragraph break occurs but leaves a half empty, the line break is
\* used, and the period-space, which would split too, is not
C12_Witness ==
    /\ pc = "done"
    /\ OverBudget
    /\ max_recursion > 0
    /\ Find(text, ParagraphBreak) # 0
    /\ FirstUsable(text, 2)
    /\ BothHalves(text, PeriodSpace)
    /\ strings = RecursionOn(LineBreak)
    /\ strings # RecursionOn(PeriodSpace)

\* a delimiter occurs in the text with text on both sides of it
HasBoundary(tx) ==
    \E k \in 1..Len(PreferenceOrder) :
        \E i \in 2..Len(tx) :
            /\ StartsWithAt(tx, PreferenceOrder[k], i)
            /\ i + Len(PreferenceOrder[k]) <= Len(tx)

\* C14: over budget with max_recursion > 0, a truncated string is returned
\* at that level only if the text has no boundary; whenever a delimiter
\* occurs with text on both sides, the text is split and the two halves
\* rejoined are the text.
C14_TruncationLastResort ==
    (pc = "done" /\ OverBudget /\ max_recursion > 0 /\ HasBoundary(text)) =>
        /\ ~TruncatedHere
        /\ \E k \in 1..Len(PreferenceOrder) :
              LET lr == halved_by_delimiter(text, PreferenceOrder[k])
              IN  /\ strings = RecursionOn(PreferenceOrder[k])
                  /\ lr[1] \o PreferenceOrder[k] \o lr[2] = text

\* What does hold: the truncation at that level happens exactly when
\* every delimiter leaves halve with an empty half.
C14_TruncationWhenNoHalves ==
    (pc = "done" /\ OverBudget /\ max_recursion > 0) =>
        (TruncatedHere <=> \A k \in 1..Len(PreferenceOrder) : ~BothHalves(text, PreferenceOrder[k]))

\* C15: over budget with max_recursion = 0, the result is the one string
\* truncate(candidate, model, max_tokens); every truncated string comes
\* from a candidate of more than max_tokens tokens, has exactly max_tokens
\* tokens and is a prefix of its candidate.
C15_DepthZeroTruncation ==
    pc = "done" =>
        /\ (OverBudget /\ max_recursion = 0) =>
              Strings(strings) = <<truncated_string(Candidate(titles, text), model, max_tokens)>>
        /\ \A k \in 1..Len(strings) :
              strings[k].truncated =>
                  /\ num_tokens(Candidate(titles, strings[k].piece), model) > max_tokens
                  /\ num_tokens(strings[k].string, model) = max_tokens
                  /\ IsPrefix(strings[k].string, Candidate(titles, strings[k].piece))

\* The same statement for calls that pass the default model: it holds
\* there.
C15_DepthZeroDefaultModel ==
    (pc = "done" /\ model = GPT_MODEL) =>
        /\ (OverBudget /\ max_recursion = 0) =>
              Strings(strings) = <<truncated_string(Candidate(titles, text), model, max_tokens)>>
        /\ \A k \in 1..Len(strings) :
              strings[k].truncated =>
                  /\ num_tokens(Candidate(titles, strings[k].piece), GPT_MODEL) > max_tokens
                  /\ num_tokens(strings[k].string, GPT_MODEL) = max_tokens
                  /\ IsPrefix(strings[k].string, Candidate(titles, strings[k].piece))

\* C18: a pair of two non-empty halves is lossless (left + delimiter +
\* right is the text) and each half is strictly shorter than the text; so
\* when no returned string is truncated, each string is the path prefix and
\* its piece, and the pieces in order, rejoined with delimiters, are the
\* text.
C18_LosslessRecursion ==
    pc = "done" =>
        /\ \A k \in 1..Len(PreferenceOrder) :
              \A lr \in {halved_by_delimiter(text, PreferenceOrder[k])} :
                  (lr[1] # <<>> /\ lr[2] # <<>>) =>
                      /\ lr[1] \o PreferenceOrder[k] \o lr[2] = text
                      /\ Len(lr[1]) < Len(text)
                      /\ Len(lr[2]) < Len(text)
        /\ (\A k \in 1..Len(strings) : ~strings[k].truncated) =>
              /\ \A k \in 1..Len(strings) :
                    strings[k].string = PathPrefix(titles) \o strings[k].piece
              /\ Rejoins(PiecesOf(strings), text)

\* three strings, none truncated, from splits on two different delimiters
C18_Witness ==
    /\ pc = "done"
    /\ Len(strings) >= 3
    /\ \A k \in 1..Len(strings) : ~strings[k].truncated /\ strings[k].piece # <<>>
    /\ Rejoins(PiecesOf(strings), text)
    /\ \A k \in 1..Len(PreferenceOrder) :
          StrJoin(PiecesOf(strings), PreferenceOrder[k]) # text

----------------------------------------------------------------------------
(* Properties of all_subsections_from_title (SpecFlatten). *)

\* the heading tree: the parent of heading i is the nearest heading before
\* it with a smaller level, the page itself (0) when there is none
Parent(es, i) ==
    IF \E j \in 1..(i - 1) : es[j].level < es[i].level
    THEN CHOOSE j \in 1..(i - 1) :
            /\ es[j].level < es[i].level
            /\ \A k \in (j + 1)..(i - 1) : es[k].level >= es[i].level
    ELSE 0

RECURSIVE Depth(_, _)
Depth(es, i) == IF i = 0 THEN 0 ELSE 1 + Depth(es, Parent(es, i))

\* heading j is heading i or one of its descendants
RECURSIVE InSubtree(_, _, _)
InSubtree(es, i, j) ==
    IF j = i THEN TRUE
    ELSE IF j = 0 THEN FALSE
    ELSE InSubtree(es, i, Parent(es, j))

Emitted(n) == \E k \in 1..Len(sections) : sections[k].pos = n
EmittedOnce(n) == Cardinality({k \in 1..Len(sections) : sections[k].pos = n}) = 1
PathOf(n) == sections[CHOOSE k \in 1..Len(sections) : sections[k].pos = n].titles

StrippedTitle(h) == Strip(HeadingStr(h), {"=", " "})

\* C4: a heading whose title, stripped of '=' and spaces, is in the ignore
\* set yields no subsection, and neither does any of its descendants; a
\* heading whose stripped title is not exactly a member (a different case
\* is enough) is emitted whenever it is a top-level heading or the direct
\* child, one level down, of an emitted heading.
C4_IgnoredSubtreePruned ==
    pc = "done" =>
        LET es == page.entries
        IN  \A i \in 1..Len(es) :
                /\ StrippedTitle(es[i]) \in sections_to_ignore =>
                      \A j \in 1..Len(es) : InSubtree(es, i, j) => ~Emitted(j)
                /\ (/\ StrippedTitle(es[i]) \notin sections_to_ignore
                    /\ \/ es[i].level = TopLevel
                       \/ /\ Parent(es, i) # 0
                          /\ Emitted(Parent(es, i))
                          /\ es[i].level = es[Parent(es, i)].level + 1)
                   => EmittedOnce(i)

C4_Witness ==
    /\ pc = "done"
    /\ sections_to_ignore = {<<"R">>}
    /\ Len(page.entries) = 3
    /\ page.entries[1].level = TopLevel /\ page.entries[1].title = <<" ", "R", " ">>
    /\ page.entries[2].level = TopLevel + 1 /\ page.entries[2].title = <<"r">>
    /\ page.entries[3].level = TopLevel /\ page.entries[3].title = <<"r">>
    /\ ~Emitted(1) /\ ~Emitted(2) /\ Emitted(3)

\* C5: the first subsection is the root, with path [page title] and the
\* text before the first heading, whatever the ignore set holds; the
\* result is never empty.
C5_RootFirst ==
    pc = "done" =>
        /\ sections # <<>>
        /\ sections[1].titles = <<wiki_title>>
        /\ sections[1].text = page.lead

\* What does hold of the root: it is always first, under the page title,
\* also when that title is in the ignore set, and its text is a prefix of
\* the text before the first heading.
C5_RootFirstPrefix ==
    pc = "done" =>
        /\ sections # <<>>
        /\ sections[1].titles = <<wiki_title>>
        /\ sections[1].pos = 0
        /\ IsPrefix(sections[1].text, page.lead)

\* C6: the list is in pre-order and source order (the headings' positions
\* increase along it, the root first); each emitted heading's parent in
\* the heading tree is emitted too and its path is the parent's path with
\* its own decorated heading appended; so a subsection at depth d has a
\* path of d + 1 titles that starts with the page title.
C6_PreOrderPaths ==
    pc = "done" =>
        LET es == page.entries
        IN  /\ sections[1].pos = 0
            /\ \A k \in 1..(Len(sections) - 1) : sections[k].pos < sections[k + 1].pos
            /\ \A k \in 2..Len(sections) :
                  LET i == sections[k].pos
                  IN  /\ i \in 1..Len(es)
                      /\ Emitted(Parent(es, i))
                      /\ sections[k].titles
                            = PathOf(Parent(es, i)) \o <<HeadingStr(es[i])>>
                      /\ Len(sections[k].titles) = Depth(es, i) + 1
                      /\ sections[k].titles[1] = wiki_title

C6_Witness ==
    /\ pc = "done"
    /\ Len(page.entries) = 3
    /\ Len(sections) = 4
    /\ Parent(page.entries, 2) = 1
    /\ Parent(page.entries, 3) = 0
    /\ sections[3].titles = <<wiki_title, HeadingStr(page.entries[1]),
                               HeadingStr(page.entries[2])>>
    /\ sections[4].titles = <<wiki_title, HeadingStr(page.entries[3])>>

\* heading i is in a pruned branch: it or one of its ancestors is ignored
Pruned(es, i) ==
    \E j \in 1..Len(es) :
        /\ InSubtree(es, j, i)
        /\ StrippedTitle(es[j]) \in sections_to_ignore

TextOf(n) == sections[CHOOSE k \in 1..Len(sections) : sections[k].pos = n].text

\* C16: every heading that is not ignored and has no ignored ancestor
\* yields exactly one subsection, holding its own body, whatever the
\* levels of the headings are; the number of subsections is 1 plus the
\* number of such headings.
C16_FlattenComplete ==
    pc = "done" =>
        LET es == page.entries
        IN  /\ \A i \in 1..Len(es) :
                  ~Pruned(es, i) => (EmittedOnce(i) /\ TextOf(i) = es[i].body)
            /\ Len(sections) = 1 + Cardinality({i \in 1..Len(es) : ~Pruned(es, i)})

\* The part about the levels alone: every such heading is emitted once.
C16_EveryLevelEmitted ==
    pc = "done" =>
        \A i \in 1..Len(page.entries) : ~Pruned(page.entries, i) => EmittedOnce(i)

\* What does hold: nothing is emitted twice, nothing from a pruned branch
\* is emitted, and an emitted heading sits exactly one level below its
\* parent, the page title being level 1.
C16_EmittedAtNextLevel ==
    pc = "done" =>
        LET es == page.entries
        IN  \A i \in 1..Len(es) :
                Emitted(i) =>
                    /\ EmittedOnce(i)
                    /\ ~Pruned(es, i)
                    /\ es[i].level = Depth(es, i) + 1

----------------------------------------------------------------------------
(* Properties of halved_by_delimiter (SpecHalve). *)

\* C7: whenever the text splits into two or more pieces, the halves
\* rejoined with the delimiter are the text.
C7_Lossless ==
    (pc = "done" /\ Len(StrSplit(text, delimiter)) >= 2) =>
        halves[1] \o delimiter \o halves[2] = text

\* What does hold: the rejoin is the text unless the scan stopped at the
\* first piece, where the pair is ("", text).
C7_LosslessUnlessLeftEmpty ==
    (pc = "done" /\ Len(StrSplit(text, delimiter)) >= 2) =>
        \/ halves[1] \o delimiter \o halves[2] = text
        \/ Len(StrSplit(text, delimiter)) >= 3 /\ halves = <<<<>>, text>>

\* the pieces of the text, and the scan over their prefixes as the loop's
\* comment describes it: prefix i (0-based) is the pieces 0..i rejoined
Pieces == StrSplit(text, delimiter)
PrefixTokens(i) == num_tokens(StrJoin(SubSeq(Pieces, 1, i + 1), delimiter), GPT_MODEL)
PrefixDiff(i) == Abs(halfway(text) - PrefixTokens(i))
\* best_diff when the scan reaches i, every earlier prefix having improved
BestDiffAt(i) == IF i = 0 THEN halfway(text) ELSE PrefixDiff(i - 1)
\* i is the first index whose diff is not strictly smaller than best_diff
FirstFailure(i) ==
    /\ PrefixDiff(i) >= BestDiffAt(i)
    /\ \A j \in 0..(i - 1) : PrefixDiff(j) < BestDiffAt(j)

\* C13: for a text of three or more pieces, with best_diff initialised to
\* target = tokens(text) div 2, the scan stops at the first index i whose
\* diff is not strictly smaller than best_diff (a tie stops it); left is
\* the pieces before i and right the pieces from i on; left is empty
\* exactly when i = 0, i.e. exactly when the first piece has zero tokens or
\* at least 2 * target tokens.
C13_ScanStopsAtFirstFailure ==
    (pc = "done" /\ Len(Pieces) >= 3) =>
        \A i \in 0..(Len(Pieces) - 1) :
            FirstFailure(i) =>
                /\ halves[1] = StrJoin(SubSeq(Pieces, 1, i), delimiter)
                /\ halves[2] = StrJoin(SubSeq(Pieces, i + 1, Len(Pieces)), delimiter)
                /\ (halves[1] = <<>>) <=> (i = 0)
                /\ (i = 0) <=> (PrefixTokens(0) = 0 \/ PrefixTokens(0) >= 2 * halfway(text))

\* a scan that improved twice and then stopped on a tie
C13_Witness ==
    /\ pc = "done"
    /\ Len(Pieces) >= 4
    /\ FirstFailure(2)
    /\ PrefixDiff(2) = BestDiffAt(2)
    /\ halves = <<StrJoin(SubSeq(Pieces, 1, 2), delimiter),
                  StrJoin(SubSeq(Pieces, 3, Len(Pieces)), delimiter)>>

\* C17: for a text of n >= 3 pieces the scan always stops by failure to
\* improve at some index i <= n - 1, because the prefix that is the whole
\* text has diff = total - total div 2 >= target >= best_diff; so right
\* always holds at least the final piece.
C17_ScanAlwaysFails ==
    (pc = "done" /\ Len(Pieces) >= 3) =>
        LET n == Len(Pieces)
        IN  /\ PrefixDiff(n - 1) = num_tokens(text, GPT_MODEL) - halfway(text)
            /\ PrefixDiff(n - 1) >= halfway(text)
            /\ \A i \in 0..(n - 1) : BestDiffAt(i) <= halfway(text) \/ ~FirstFailure(i)
            /\ \E i \in 0..(n - 1) :
                  /\ FirstFailure(i)
                  /\ halves[2] = StrJoin(SubSeq(Pieces, i + 1, n), delimiter)

\* the scan improves on every prefix but the whole text: right is the
\* final piece alone
C17_Witness ==
    /\ pc = "done"
    /\ Len(Pieces) >= 3
    /\ FirstFailure(Len(Pieces) - 1)
    /\ halves[2] = Pieces[Len(Pieces)]
    /\ halves[2] # <<>>

----------------------------------------------------------------------------
(* Properties of the pipeline (SpecPipeline). *)

\* the flattened subsections of the page, in flattening order
Flattened == all_subsections_from_title(wiki_title, page, sections_to_ignore)
CleanedText(ws) == clean_section(<<ws.titles, ws.text>>)[2]

\* the final strings made from subsection n, in their order in the list
StringsFrom(n) ==
    LET FromN(r) == r.pos = n
    IN  Strings(SelectSeq(strings, FromN))

\* C11: the final list holds, for each flattened subsection whose cleaned
\* text has at least 16 characters, the strings of split(clean(s)), and
\* nothing for a subsection whose cleaned text is shorter (15 is dropped,
\* 16 is kept); the strings of an earlier subsection all precede those of
\* a later one (pos numbers the subsections in flattening order).
C11_PipelineComposition ==
    pc = "done" =>
        LET flat == Flattened
        IN  /\ \A k \in 1..(Len(flat) - 1) : flat[k].pos < flat[k + 1].pos
            /\ \A k \in 1..Len(flat) :
                  LET ws == flat[k]
                      tx == CleanedText(ws)
                  IN  IF Len(tx) >= 16
                      THEN StringsFrom(ws.pos)
                             = Strings(split_strings_from_subsection(
                                  ws.titles, tx, max_tokens,
                                  GPT_MODEL, DefaultMaxRecursion))
                      ELSE StringsFrom(ws.pos) = <<>>
            /\ \A j \in 1..Len(strings) :
                  /\ \E k \in 1..Len(flat) : flat[k].pos = strings[j].pos
                  /\ j > 1 => strings[j - 1].pos <= strings[j].pos

\* a page whose lead cleans to 17 characters and is kept, followed by
\* subsections that clean to 16, 15 and 16 characters: the one of 15
\* (longer before cleaning) gives nothing, the first of 16 is split in two
\* strings, and those come before the strings of the later subsection
C11_Witness ==
    /\ pc = "done"
    /\ LET flat == Flattened
       IN  /\ Len(CleanedText(flat[1])) = 17
           /\ strings[1].pos = flat[1].pos
           /\ \E i, j, k \in 2..Len(flat) :
                 /\ i < j /\ j < k
                 /\ Len(CleanedText(flat[i])) = 16
                 /\ Len(flat[j].text) > 16
                 /\ Len(CleanedText(flat[j])) = 15
                 /\ Len(CleanedText(flat[k])) = 16
                 /\ Len(StringsFrom(flat[i].pos)) = 2
                 /\ StringsFrom(flat[j].pos) = <<>>
                 /\ StringsFrom(flat[k].pos) # <<>>
                 /\ \E a \in 1..Len(strings) :
                       /\ SubSeq(Strings(strings), a, a + 1) = StringsFrom(flat[i].pos)
                       /\ strings[a + 2].pos = flat[k].pos

----------------------------------------------------------------------------
(* Properties of clean_section (SpecClean). *)

\* C8: cleaning a cleaned section changes nothing, and cleaning leaves the
\* path as it was.
C8_CleanIdempotent ==
    pc = "done" =>
        /\ clean_section(cleaned) = cleaned
        /\ cleaned[1] = titles

\* What does hold: the path is unchanged, the cleaned text has no
\* whitespace at either end, and a second pass only ever removes more.
C8_CleanOnce ==
    pc = "done" =>
        /\ cleaned[1] = titles
        /\ Strip(cleaned[2], Whitespace) = cleaned[2]
        /\ Len(clean_section(cleaned)[2]) <= Len(cleaned[2])

====
